---- MODULE Spec2Model ----
(***************************************************************************)
(* ToolSafetyWrapper (agents/xagent/tools/safety_wrapper.py): the gate     *)
(* that validates the arguments of a tool call, runs the tool under a      *)
(* SIGALRM deadline, turns faults into error strings and keeps a rolling   *)
(* ledger of execution records.                                            *)
(*                                                                         *)
(* Strings are sequences of runs [c, n, cut]: c is the text of the run, n  *)
(* the number of characters it stands for, cut tells that the run is a     *)
(* proper prefix of c left by a slice.  Python values are records          *)
(* [t, i, s]: an int, a str, or an object whose __str__/__repr__ raises.   *)
(* Time is counted in whole seconds.                                       *)
(***************************************************************************)
EXTENDS Integers, Sequences, FiniteSets, TLC

VARIABLES logger, execution_history, max_execution_time, max_memory_usage,
          clock, alarm, nops, call, out, recorded, threads

vars == <<logger, execution_history, max_execution_time, max_memory_usage,
          clock, alarm, nops, call, out, recorded, threads>>

(***************************************************************************)
(* Bounds of the model                                                     *)
(***************************************************************************)
MaxOps == 2

MaxDur == 2

MaxLedgerOps == 1500

MaxLimit == 3

MaxLen == 3

MaxThreads == 2

(***************************************************************************)
(* Strings and values                                                      *)
(***************************************************************************)
Atom(c, n) == [c |-> c, n |-> n, cut |-> FALSE]

RECURSIVE Digits(_)
Digits(i) == IF i < 0 THEN 1 + Digits(0 - i)
             ELSE IF i < 10 THEN 1 ELSE 1 + Digits(i \div 10)

Text(c) == <<Atom(c, Len(c))>>

IntText(i) == <<Atom(ToString(i), Digits(i))>>

RECURSIVE CharLen(_)
CharLen(text) == IF text = <<>> THEN 0 ELSE Head(text).n + CharLen(Tail(text))

IntVal(i) == [t |-> "int", i |-> i, s |-> <<>>]

StrVal(text) == [t |-> "str", i |-> 0, s |-> text]

Obj == [t |-> "obj", i |-> 0, s |-> <<>>]

NoValue == [t |-> "none", i |-> 0, s |-> <<>>]

StrFaults(v) == v.t = "obj"

PyStr(v) == IF v.t = "int" THEN IntText(v.i) ELSE v.s

PyRepr(v) == IF v.t = "int" THEN IntText(v.i)
             ELSE <<Atom("'", 1)>> \o v.s \o <<Atom("'", 1)>>

Max(a, b) == IF a >= b THEN a ELSE b

Min(a, b) == IF a <= b THEN a ELSE b

\* seq[start:] with Python's treatment of a negative or too large start
PySliceFrom(seq, start) ==
    LET n == Len(seq)
        lo == IF start < 0 THEN Max(n + start, 0) ELSE Min(start, n)
    IN SubSeq(seq, lo + 1, n)

\* text[:k] for k >= 0, on runs
RECURSIVE PySliceTo(_, _)
PySliceTo(text, k) ==
    IF text = <<>> \/ k <= 0 THEN <<>>
    ELSE IF Head(text).n <= k
         THEN <<Head(text)>> \o PySliceTo(Tail(text), k - Head(text).n)
         ELSE <<[c |-> Head(text).c, n |-> k, cut |-> TRUE]>>

\* pattern in text
Contains(text, pattern) ==
    \E k \in 0..(Len(text) - Len(pattern)) :
        SubSeq(text, k + 1, k + Len(pattern)) = pattern

RECURSIVE Join(_)
Join(items) == IF items = <<>> THEN <<>>
               ELSE IF Len(items) = 1 THEN Head(items)
               ELSE Head(items) \o <<Atom(", ", 2)>> \o Join(Tail(items))

\* str(args) of a tuple of renderable values
TupleText(args) ==
    <<Atom("(", 1)>> \o Join([k \in 1..Len(args) |-> PyRepr(args[k])])
        \o (IF Len(args) = 1 THEN <<Atom(",", 1)>> ELSE <<>>) \o <<Atom(")", 1)>>

\* str(kwargs) of a dict, given as the sequence of its <<key, value>> items
DictText(kwargs) ==
    <<Atom("{", 1)>>
        \o Join([k \in 1..Len(kwargs) |->
                    PyRepr(StrVal(Text(kwargs[k][1]))) \o <<Atom(": ", 2)>> \o PyRepr(kwargs[k][2])])
        \o <<Atom("}", 1)>>

ReprFaults(args, kwargs) ==
    \/ \E k \in 1..Len(args) : StrFaults(args[k])
    \/ \E k \in 1..Len(kwargs) : StrFaults(kwargs[k][2])

(***************************************************************************)
(* Exceptions and the outcome of a call                                    *)
(***************************************************************************)
\* cls "Exception" stands for any subclass of Exception other than
\* TimeoutError, cls "SystemExit" for a BaseException that is no Exception;
\* strOk tells whether str(e) returns.
Exc(cls, desc, strOk) == [cls |-> cls, desc |-> desc, strOk |-> strOk]

NoExc == Exc("none", <<>>, TRUE)

Returned(v) == [kind |-> "return", value |-> v, exc |-> NoExc]

Raised(e) == [kind |-> "raise", value |-> NoValue, exc |-> e]

\* what the __str__/__repr__ of an Obj raises
ReprError == Exc("Exception", <<Atom("norepr", 6)>>, TRUE)

IsException(e) == e.cls \in {"Exception", "TimeoutError"}

(***************************************************************************)
(* ToolSafetyWrapper                                                       *)
(***************************************************************************)
HistoryLimit == 1000

ResultLimit == 1000

MaxArgs == 10

MaxKwargs == 20

DefaultMaxExecutionTime == 30

DefaultMaxMemoryUsage == 104857600

MinExecutionTime == 1

MinMemoryUsage == 1024

dangerous_patterns ==
    << <<Atom("eval", 4), Atom("(", 1)>>,
       <<Atom("exec", 4), Atom("(", 1)>>,
       <<Atom("import", 6), Atom(" ", 1)>>,
       <<Atom("os", 2), Atom(".", 1), Atom("system", 6)>>,
       <<Atom("subprocess", 10)>>,
       <<Atom("file", 4), Atom("://", 3)>>,
       <<Atom("http", 4), Atom("://", 3)>>,
       <<Atom("https", 5), Atom("://", 3)>>,
       <<Atom("ftp", 3), Atom("://", 3)>> >>

\* _validate_input with the positional limit off by one (>= for >)
_validate_input_off_by_one(args, kwargs) ==
    IF Len(args) >= MaxArgs THEN FALSE
    ELSE IF Len(kwargs) > MaxKwargs THEN FALSE
    ELSE IF ReprFaults(args, kwargs) THEN FALSE
    ELSE LET input_str == TupleText(args) \o DictText(kwargs)
         IN ~ \E k \in 1..Len(dangerous_patterns) : Contains(input_str, dangerous_patterns[k])

\* _validate_input: a fault of str(args) + str(kwargs) is caught and rejects
_validate_input(args, kwargs) ==
    IF Len(args) > MaxArgs THEN FALSE
    ELSE IF Len(kwargs) > MaxKwargs THEN FALSE
    ELSE IF ReprFaults(args, kwargs) THEN FALSE
    ELSE LET input_str == TupleText(args) \o DictText(kwargs)
         IN ~ \E k \in 1..Len(dangerous_patterns) : Contains(input_str, dangerous_patterns[k])

timeout_handler(T) ==
    Exc("TimeoutError",
        <<Atom("Tool execution timed out after ", 31)>> \o IntText(T) \o <<Atom(" seconds", 8)>>,
        TRUE)

\* The callable, as it behaves on this call: after beh.dur seconds it returns
\* beh.value (kinds "return" and "swallow") or raises beh.exc (kind "raise").
\* interrupted: the alarm handler raised TimeoutError inside it before that;
\* a "swallow" callable catches what is raised into it and returns its value.
tool_func(beh, interrupted, T) ==
    IF interrupted
    THEN IF beh.kind = "swallow" THEN Returned(beh.value) ELSE Raised(timeout_handler(T))
    ELSE IF beh.kind = "raise" THEN Raised(beh.exc) ELSE Returned(beh.value)

\* _execute_with_timeout.  race settles the order of SIGALRM and the callable's
\* completion when both fall in the same second: "done" the callable completes
\* and the alarm is cancelled, "cut" the alarm fires inside the callable,
\* "late" the alarm fires after the callable completed and before alarm(0).
\* pending: the alarm is still armed when control leaves the function.
_execute_with_timeout(beh, race, T) ==
    LET cut == beh.dur > T \/ (beh.dur = T /\ race = "cut")
        late == beh.dur = T /\ race = "late"
        r == tool_func(beh, cut, T)
        res == IF late THEN Raised(timeout_handler(T)) ELSE r
        handled == res.kind = "return" \/ IsException(res.exc)
    IN [res |-> res,
        elapsed |-> Min(beh.dur, T),
        armed |-> T,
        cut |-> cut,
        late |-> late,
        pending |-> ~handled /\ ~(cut \/ late)]

ValidationMsg(tool_name) ==
    <<Atom("Input validation failed for tool ", 33), Atom(tool_name, Len(tool_name))>>

FailureMsg(tool_name, e) ==
    <<Atom("Tool ", 5), Atom(tool_name, Len(tool_name)), Atom(" execution failed: ", 19)>> \o e.desc

\* _record_execution keeping the oldest records ([:1000] for [-1000:])
_record_execution_keep_oldest(history, execution_id, tool_name, success, execution_time, now, result) ==
    LET execution_record == [id |-> execution_id,
                             tool_name |-> tool_name,
                             success |-> success,
                             execution_time |-> execution_time,
                             timestamp |-> now,
                             result |-> PySliceTo(PyStr(result), ResultLimit)]
        appended == Append(history, execution_record)
    IN IF Len(appended) > HistoryLimit
       THEN SubSeq(appended, 1, HistoryLimit)
       ELSE appended

_record_execution(history, execution_id, tool_name, success, execution_time, now, result) ==
    LET execution_record == [id |-> execution_id,
                             tool_name |-> tool_name,
                             success |-> success,
                             execution_time |-> execution_time,
                             timestamp |-> now,
                             result |-> PySliceTo(PyStr(result), ResultLimit)]
        appended == Append(history, execution_record)
    IN IF Len(appended) > HistoryLimit
       THEN PySliceFrom(appended, 0 - HistoryLimit)
       ELSE appended

\* execute_safely, as one step: what the caller gets (res), the ledger after
\* it, whether the callable was invoked, the value the alarm was armed with
\* (0: not armed), whether an alarm is left pending, and the time it took.
execute_safely(lg, history, T, now, c, beh, race) ==
    LET execution_id == <<c.tool_name, now>>
        untouched == [history |-> history, recs |-> <<>>, invoked |-> 0, armed |-> 0,
                      cut |-> FALSE, late |-> FALSE, pending |-> FALSE, elapsed |-> 0]
    IN IF lg /\ ReprFaults(c.args, c.kwargs)
       THEN [res |-> Raised(ReprError)] @@ untouched
       ELSE IF ~_validate_input(c.args, c.kwargs)
       THEN [res |-> Returned(StrVal(ValidationMsg(c.tool_name)))] @@ untouched
       ELSE
         LET x == _execute_with_timeout(beh, race, T)
             ran == [invoked |-> 1, armed |-> x.armed, cut |-> x.cut, late |-> x.late,
                     pending |-> x.pending, elapsed |-> x.elapsed]
             end == now + x.elapsed
             \* the try block after the call: log and record the success
             e == IF x.res.kind = "raise" THEN x.res.exc
                  ELSE IF StrFaults(x.res.value) THEN ReprError
                  ELSE NoExc
         IN IF e = NoExc
            THEN LET h == _record_execution(history, execution_id, c.tool_name, TRUE,
                                            x.elapsed, end, x.res.value)
                 IN [res |-> x.res, history |-> h, recs |-> <<h[Len(h)]>>] @@ ran
            ELSE IF ~IsException(e)
            THEN [res |-> Raised(e), history |-> history, recs |-> <<>>] @@ ran
            ELSE IF ~e.strOk
            THEN [res |-> Raised(ReprError), history |-> history, recs |-> <<>>] @@ ran
            ELSE LET error_msg == StrVal(FailureMsg(c.tool_name, e))
                     h == _record_execution(history, execution_id, c.tool_name, FALSE,
                                            x.elapsed, end, error_msg)
                 IN [res |-> Returned(error_msg), history |-> h, recs |-> <<h[Len(h)]>>] @@ ran

RECURSIVE SumTimes(_)
SumTimes(history) ==
    IF history = <<>> THEN 0 ELSE Head(history).execution_time + SumTimes(Tail(history))

\* a / b as the exact fraction <<a, b>>
Ratio(a, b) == <<a, b>>

get_execution_stats(history) ==
    IF history = <<>>
    THEN [k \in {"total_executions"} |-> 0]
    ELSE LET n == Len(history)
             successful == SelectSeq(history, LAMBDA e : e.success)
             failed == SelectSeq(history, LAMBDA e : ~e.success)
             total_time == SumTimes(history)
         IN [total_executions |-> n,
             successful_executions |-> Len(successful),
             failed_executions |-> Len(failed),
             success_rate |-> Ratio(Len(successful), n),
             average_execution_time |-> Ratio(total_time, n),
             total_execution_time |-> total_time]

get_recent_executions(history, limit) ==
    IF history # <<>> THEN PySliceFrom(history, 0 - limit) ELSE <<>>

\* set_max_execution_time without the floor
clamp_execution_time_no_floor(seconds) == seconds

clamp_execution_time(seconds) == Max(MinExecutionTime, seconds)

clamp_memory_usage(bytes_limit) == Max(MinMemoryUsage, bytes_limit)

(***************************************************************************)
(* Inputs                                                                  *)
(***************************************************************************)
double(x) == x * 2

Fill(n) == [k \in 1..n |-> IntVal(0)]

FillKw(n) == [k \in 1..n |-> <<"k" \o ToString(k), IntVal(0)>>]

OsSystem == <<Atom("os", 2), Atom(".", 1), Atom("system", 6)>>

OsSpaceSystem == <<Atom("os", 2), Atom(" ", 1), Atom("system", 6)>>

HttpUrl == <<Atom("http", 4), Atom("://", 3), Atom("x", 1)>>

LongText == <<Atom("xxx...", ResultLimit + 200)>>

Call(tool_name, args, kwargs) == [tool_name |-> tool_name, args |-> args, kwargs |-> kwargs]

\* calls that validation lets through
AcceptedCalls == {Call("T", <<IntVal(5)>>, <<>>),
                  Call("Double", <<IntVal(5)>>, <<>>),
                  Call("T", Fill(MaxArgs), FillKw(MaxKwargs)),
                  Call("T", <<StrVal(OsSpaceSystem)>>, <<>>)}

\* calls that it does not
RejectedCalls == {Call("T", Fill(MaxArgs + 1), <<>>),
                  Call("T", <<Obj>> \o Fill(MaxArgs), <<>>),
                  Call("T", <<IntVal(5)>>, FillKw(MaxKwargs + 1)),
                  Call("T", <<StrVal(OsSystem)>>, <<>>),
                  Call("T", <<IntVal(5)>>, <<<<"url", StrVal(HttpUrl)>>>>),
                  Call("T", <<Obj>>, <<>>)}

Calls == AcceptedCalls \cup RejectedCalls

Beh(kind, dur, value, exc) == [kind |-> kind, dur |-> dur, value |-> value, exc |-> exc]

NoBeh == Beh("none", 0, NoValue, NoExc)

DefaultBeh == Beh("return", 0, IntVal(double(5)), NoExc)

Behaviours ==
    { Beh("return", d, IntVal(double(5)), NoExc) : d \in 0..MaxDur }
    \cup { Beh("raise", d, NoValue, Exc("Exception", Text("boom"), TRUE)) : d \in 0..MaxDur }
    \cup { Beh("swallow", d, StrVal(Text("late")), NoExc) : d \in 0..MaxDur }
    \cup { Beh("return", 0, StrVal(LongText), NoExc),
           Beh("return", 0, Obj, NoExc),
           Beh("raise", 0, NoValue, Exc("Exception", LongText, TRUE)),
           Beh("raise", 0, NoValue, Exc("Exception", Text("nostr"), FALSE)),
           Beh("raise", 0, NoValue, Exc("SystemExit", Text("bye"), TRUE)) }

\* every call with the default callable, and every callable on the plain call
Scenarios == (Calls \X {DefaultBeh}) \cup ({Call("T", <<IntVal(5)>>, <<>>)} \X Behaviours)

Races(beh, T) == IF beh.dur = T THEN {"done", "cut", "late"} ELSE {"done"}

TimeInputs == {0 - 1, 0, 1, 2}

MemoryInputs == {0, 1023, 1024, 2048}

(***************************************************************************)
(* The state machine                                                       *)
(***************************************************************************)
NoCall == Call("", <<>>, <<>>)

Last(seq) == seq[Len(seq)]

\* the callers: thread 1 is the main thread of the interpreter
Threads == 1..MaxThreads

MainThread == 1

\* a caller's place in its operation, the record it is about to append and
\* the slice it is about to store
Idle == [pc |-> "idle", rec |-> <<>>, tmp |-> <<>>]

Init ==
    /\ logger \in BOOLEAN
    /\ execution_history = <<>>
    /\ max_execution_time = DefaultMaxExecutionTime
    /\ max_memory_usage = DefaultMaxMemoryUsage
    /\ clock = 0
    /\ alarm = 0
    /\ nops = 0
    /\ call = NoCall
    /\ out = [op |-> "init"]
    /\ recorded = <<>>
    /\ threads = [t \in Threads |-> Idle]

ExecuteCall(c, beh, race) ==
    LET r == execute_safely(logger, execution_history, max_execution_time, clock, c, beh, race)
    IN /\ execution_history' = r.history
       /\ recorded' = recorded \o r.recs
       /\ clock' = clock + r.elapsed
       /\ alarm' = IF r.armed = 0 THEN alarm
                   ELSE IF r.pending THEN clock + r.armed ELSE 0
       /\ nops' = nops + 1
       /\ call' = c
       /\ out' = [op |-> "execute", res |-> r.res, invoked |-> r.invoked,
                  armed |-> r.armed, cut |-> r.cut, late |-> r.late,
                  beh |-> IF r.invoked = 1 THEN beh ELSE NoBeh]
       /\ UNCHANGED <<logger, max_execution_time, max_memory_usage, threads>>

Execute ==
    /\ nops < MaxOps
    /\ \E sc \in Scenarios :
         \E race \in Races(sc[2], max_execution_time) : ExecuteCall(sc[1], sc[2], race)

GetExecutionStats ==
    /\ out' = [op |-> "stats", result |-> get_execution_stats(execution_history)]
    /\ UNCHANGED <<logger, execution_history, max_execution_time, max_memory_usage,
                   clock, alarm, nops, call, recorded, threads>>

GetRecentExecutions ==
    /\ \E limit \in 0..MaxLimit :
         out' = [op |-> "recent", limit |-> limit,
                 result |-> get_recent_executions(execution_history, limit)]
    /\ UNCHANGED <<logger, execution_history, max_execution_time, max_memory_usage,
                   clock, alarm, nops, call, recorded, threads>>

\* clear_execution_history done by re-initialising the wrapper
ClearByReinit ==
    /\ nops < MaxOps
    /\ execution_history' = <<>>
    /\ recorded' = <<>>
    /\ max_execution_time' = DefaultMaxExecutionTime
    /\ max_memory_usage' = DefaultMaxMemoryUsage
    /\ nops' = nops + 1
    /\ out' = [op |-> "clear"]
    /\ UNCHANGED <<logger, clock, alarm, call, threads>>

ClearExecutionHistory ==
    /\ nops < MaxOps
    /\ execution_history' = <<>>
    /\ recorded' = <<>>
    /\ nops' = nops + 1
    /\ out' = [op |-> "clear"]
    /\ UNCHANGED <<logger, max_execution_time, max_memory_usage, clock, alarm, call, threads>>

SetMaxExecutionTime ==
    /\ nops < MaxOps
    /\ \E seconds \in TimeInputs :
         /\ max_execution_time' = clamp_execution_time(seconds)
         /\ out' = [op |-> "set_time", arg |-> seconds]
    /\ nops' = nops + 1
    /\ UNCHANGED <<logger, execution_history, max_memory_usage, clock, alarm, call, recorded, threads>>

SetMaxMemoryUsage ==
    /\ nops < MaxOps
    /\ \E bytes_limit \in MemoryInputs :
         /\ max_memory_usage' = clamp_memory_usage(bytes_limit)
         /\ out' = [op |-> "set_memory", arg |-> bytes_limit]
    /\ nops' = nops + 1
    /\ UNCHANGED <<logger, execution_history, max_execution_time, clock, alarm, call, recorded, threads>>

\* SIGALRM delivered while no call is in progress: an alarm that was left
\* armed comes due and timeout_handler raises in the caller's own code
AlarmFires ==
    /\ alarm # 0
    /\ clock' = Max(clock, alarm)
    /\ alarm' = 0
    /\ out' = [op |-> "alarm_fired", res |-> Raised(timeout_handler(max_execution_time))]
    /\ UNCHANGED <<logger, execution_history, max_execution_time, max_memory_usage,
                   nops, call, recorded, threads>>

Next ==
    \/ Execute
    \/ ClearExecutionHistory
    \/ SetMaxExecutionTime
    \/ SetMaxMemoryUsage
    \/ AlarmFires

Spec == Init /\ [][Next]_vars

(***************************************************************************)
(* The queries, applied to ledgers of up to MaxLen records                 *)
(***************************************************************************)
\* the ledgers execute_safely leaves after n calls that each took a second:
\* a success of Double or a fault of T
RECURSIVE LedgersOf(_)
LedgersOf(n) ==
    IF n = 0 THEN {<<>>}
    ELSE { IF ok
           THEN _record_execution(h, <<"Double", n - 1>>, "Double", TRUE, 1, n,
                                  IntVal(double(5)))
           ELSE _record_execution(h, <<"T", n - 1>>, "T", FALSE, 1, n,
                                  StrVal(FailureMsg("T", Exc("Exception", Text("boom"), TRUE))))
           : h \in LedgersOf(n - 1), ok \in BOOLEAN }

InitQuery ==
    /\ logger \in BOOLEAN
    /\ \E n \in 0..MaxLen : execution_history \in LedgersOf(n)
    /\ recorded = execution_history
    /\ max_execution_time = DefaultMaxExecutionTime
    /\ max_memory_usage = DefaultMaxMemoryUsage
    /\ clock = Len(execution_history)
    /\ alarm = 0
    /\ nops = 0
    /\ call = NoCall
    /\ out = [op |-> "init"]
    /\ threads = [t \in Threads |-> Idle]

NextQuery ==
    \/ GetExecutionStats
    \/ GetRecentExecutions
    \/ ClearExecutionHistory

SpecQuery == InitQuery /\ [][NextQuery]_vars

(***************************************************************************)
(* The ledger past its capacity: one call after the other, each taking a   *)
(* second, so that every record differs from the others                    *)
(***************************************************************************)
ExecuteMany ==
    /\ nops < MaxLedgerOps
    /\ ExecuteCall(Call("Double", <<IntVal(5)>>, <<>>),
                   Beh("return", 1, IntVal(double(5)), NoExc), "done")

NextLedger ==
    \/ ExecuteMany
    \/ ClearExecutionHistory

SpecLedger == Init /\ [][NextLedger]_vars

(***************************************************************************)
(* Concurrent callers: _record_execution and clear_execution_history       *)
(* statement by statement.  The wrapper holds no lock, so a caller can be  *)
(* overtaken between the append, the length test, the slice and the        *)
(* assignment of the slice.                                                *)
(***************************************************************************)
\* the ledger after n calls of safe_function that took a second each
Prefilled(n) ==
    [k \in 1..n |-> Last(_record_execution(<<>>, <<"Double", k - 1>>, "Double", TRUE, 1, k,
                                           IntVal(double(5))))]

StartSizes == {0, HistoryLimit - 1, HistoryLimit}

\* signal.signal called outside the main thread
SignalError ==
    Exc("Exception", <<Atom("signal only works in main thread of the main interpreter", 56)>>, TRUE)

\* the record execute_safely hands to _record_execution in thread t: the
\* callable's value in the main thread, the failure of signal.signal elsewhere
ThreadRecord(t, now) ==
    LET c == Call("Double", <<IntVal(5)>>, <<>>)
    IN IF t = MainThread
       THEN Last(execute_safely(logger, <<>>, max_execution_time, now, c,
                                Beh("return", 1, IntVal(double(5)), NoExc), "done").history)
       ELSE Last(_record_execution(<<>>, <<c.tool_name, now>>, c.tool_name, FALSE, 0, now,
                                   StrVal(FailureMsg(c.tool_name, SignalError))))

InitConc ==
    /\ logger \in BOOLEAN
    /\ \E n \in StartSizes : execution_history = Prefilled(n)
    /\ recorded = execution_history
    /\ max_execution_time = DefaultMaxExecutionTime
    /\ max_memory_usage = DefaultMaxMemoryUsage
    /\ clock = Len(execution_history)
    /\ alarm = 0
    /\ nops = 0
    /\ call = NoCall
    /\ out = [op |-> "init"]
    /\ threads = [t \in Threads |-> Idle]

\* execute_safely up to the call of _record_execution
BeginExecute(t) ==
    /\ nops < MaxOps
    /\ threads[t].pc = "idle"
    /\ LET elapsed == IF t = MainThread THEN 1 ELSE 0
       IN /\ clock' = clock + elapsed
          /\ threads' = [threads EXCEPT ![t] = [pc |-> "append",
                                                rec |-> ThreadRecord(t, clock),
                                                tmp |-> <<>>]]
    /\ nops' = nops + 1
    /\ UNCHANGED <<logger, execution_history, max_execution_time, max_memory_usage,
                   alarm, call, out, recorded>>

\* self.execution_history.append(execution_record)
AppendRecord(t) ==
    /\ threads[t].pc = "append"
    /\ execution_history' = Append(execution_history, threads[t].rec)
    /\ recorded' = Append(recorded, threads[t].rec)
    /\ threads' = [threads EXCEPT ![t].pc = "check"]
    /\ UNCHANGED <<logger, max_execution_time, max_memory_usage, clock, alarm, nops, call, out>>

\* if len(self.execution_history) > 1000
CheckLength(t) ==
    /\ threads[t].pc = "check"
    /\ threads' = [threads EXCEPT ![t] = IF Len(execution_history) > HistoryLimit
                                         THEN [@ EXCEPT !.pc = "slice"]
                                         ELSE Idle]
    /\ UNCHANGED <<logger, execution_history, max_execution_time, max_memory_usage,
                   clock, alarm, nops, call, out, recorded>>

\* self.execution_history[-1000:]
SliceHistory(t) ==
    /\ threads[t].pc = "slice"
    /\ threads' = [threads EXCEPT ![t] = [pc |-> "store", rec |-> @.rec,
                                          tmp |-> PySliceFrom(execution_history, 0 - HistoryLimit)]]
    /\ UNCHANGED <<logger, execution_history, max_execution_time, max_memory_usage,
                   clock, alarm, nops, call, out, recorded>>

\* self.execution_history = <the slice>
StoreHistory(t) ==
    /\ threads[t].pc = "store"
    /\ execution_history' = threads[t].tmp
    /\ threads' = [threads EXCEPT ![t] = Idle]
    /\ UNCHANGED <<logger, max_execution_time, max_memory_usage, clock, alarm, nops, call,
                   out, recorded>>

\* clear_execution_history called by thread t
ThreadClear(t) ==
    /\ nops < MaxOps
    /\ threads[t].pc = "idle"
    /\ execution_history' = <<>>
    /\ recorded' = <<>>
    /\ nops' = nops + 1
    /\ UNCHANGED <<logger, max_execution_time, max_memory_usage, clock, alarm, call, out,
                   threads>>

NextConc ==
    \/ \E t \in Threads : BeginExecute(t)
    \/ \E t \in Threads : AppendRecord(t)
    \/ \E t \in Threads : CheckLength(t)
    \/ \E t \in Threads : SliceHistory(t)
    \/ \E t \in Threads : StoreHistory(t)
    \/ \E t \in Threads : ThreadClear(t)

SpecConc == InitConc /\ [][NextConc]_vars


(***************************************************************************)
(* Properties                                                              *)
(***************************************************************************)
ExecStep == nops' = nops + 1 /\ out'.op = "execute"

\* the record of a call: the tool name, the success flag and the rendering
\* of the result cut to ResultLimit characters
IsRecordOf(rec, tool_name, success, result) ==
    /\ rec.tool_name = tool_name
    /\ rec.success = success
    /\ rec.result = PySliceTo(PyStr(result), ResultLimit)

\* exactly one record was appended by the step
AppendedOne == Len(recorded') = Len(recorded) + 1 /\ Last(execution_history') = Last(recorded')

\* the call was accepted, its callable was invoked and completed before the alarm fired
CompletedInTime(o) == o.invoked = 1 /\ ~o.cut /\ ~o.late

\* C1: execute_safely is total: whatever the callable, the tool name and the
\* arguments, the call returns a value to its caller and propagates no fault.
C1_ExecuteIsTotal == out.op = "execute" => out.res.kind = "return"

\* C2: a call that passes validation and whose callable returns within the
\* deadline returns the callable's value unchanged and appends exactly one
\* record, with success = true, the tool name and the rendering of the value
\* cut to 1000 characters.
C2_ValidCallReturnsValue ==
    [][(ExecStep /\ CompletedInTime(out') /\ out'.beh.kind \in {"return", "swallow"})
        => /\ out'.res = Returned(out'.beh.value)
           /\ AppendedOne
           /\ IsRecordOf(Last(execution_history'), call'.tool_name, TRUE, out'.beh.value)]_vars

\* the causes of rejection, for a call that reaches validation
TooMany(c) == Len(c.args) > MaxArgs \/ Len(c.kwargs) > MaxKwargs

Denylisted(c) ==
    /\ ~ReprFaults(c.args, c.kwargs)
    /\ \E k \in 1..Len(dangerous_patterns) :
         Contains(TupleText(c.args) \o DictText(c.kwargs), dangerous_patterns[k])

ReachesValidation(lg, c) == ~(lg /\ ReprFaults(c.args, c.kwargs))

\* C3: whenever validation rejects a call (more than 10 positional arguments,
\* more than 20 keyword arguments, or a denylisted substring in the rendering
\* of the arguments), execute_safely returns an error string and the callable
\* is not invoked; a call with at most 10 positional and 20 keyword arguments
\* whose rendering holds no denylisted substring is not rejected.
C3_RejectionBlocksCallable ==
    out.op = "execute" =>
        /\ (ReachesValidation(logger, call) /\ (TooMany(call) \/ Denylisted(call)))
             => /\ out.invoked = 0
                /\ out.res = Returned(StrVal(ValidationMsg(call.tool_name)))
        /\ (~TooMany(call) /\ ~ReprFaults(call.args, call.kwargs) /\ ~Denylisted(call))
             => out.invoked = 1

C3_Witness ==
    /\ out.op = "execute"
    /\ call.args = <<StrVal(OsSystem)>>
    /\ out.invoked = 0
    /\ out.res = Returned(StrVal(ValidationMsg("T")))

\* C4: every call of execute_safely that returns, whatever its outcome
\* (success, validation rejection, timeout, runtime fault), appends exactly
\* one record to the ledger, with success = false for the three failures.
C4_EveryCallRecorded ==
    [][(ExecStep /\ out'.res.kind = "return")
        => /\ AppendedOne
           /\ (out'.invoked = 0 => ~Last(execution_history').success)]_vars

\* C5: the ledger never holds more than 1000 records, and it holds the
\* min(N, 1000) most recent of the N records appended to it, in the order of
\* their insertion.
C5_LedgerIsBoundedFifo ==
    /\ Len(execution_history) <= HistoryLimit
    /\ Len(execution_history) = Min(Len(recorded), HistoryLimit)
    /\ execution_history = SubSeq(recorded, Len(recorded) - Len(execution_history) + 1,
                                  Len(recorded))
    /\ \A k \in 1..(Len(execution_history) - 1) :
         execution_history[k].timestamp <= execution_history[k + 1].timestamp

C5_Witness ==
    /\ Len(recorded) = MaxLedgerOps
    /\ Len(execution_history) = HistoryLimit
    /\ execution_history[1].id = <<"Double", MaxLedgerOps - HistoryLimit>>
    /\ Last(execution_history).id = <<"Double", MaxLedgerOps - 1>>

\* C6: when the callable of a validated call raises an exception,
\* execute_safely returns a string that holds the tool name and the
\* exception's description, and appends exactly one record with
\* success = false whose result is that string.
C6_FaultBecomesErrorString ==
    [][(ExecStep /\ CompletedInTime(out') /\ out'.beh.kind = "raise")
        => /\ out'.res.kind = "return"
           /\ out'.res.value.t = "str"
           /\ Contains(out'.res.value.s, Text(call'.tool_name))
           /\ Contains(out'.res.value.s, out'.beh.exc.desc)
           /\ AppendedOne
           /\ ~Last(execution_history').success
           /\ Last(execution_history').result = out'.res.value.s]_vars

\* C7: when the callable of a validated call has not returned at the
\* deadline, execute_safely returns the timeout failure string, not the
\* callable's value, and appends a record with success = false.
C7_TimeoutAborts ==
    [][(ExecStep /\ out'.invoked = 1 /\ out'.cut)
        => /\ out'.res = Returned(StrVal(FailureMsg(call'.tool_name, timeout_handler(out'.armed))))
           /\ AppendedOne
           /\ ~Last(execution_history').success]_vars

\* C8: get_execution_stats on an empty ledger reports 0 executions and a
\* success rate of 0.
C8_EmptyStats ==
    (out.op = "stats" /\ execution_history = <<>>)
        => /\ out.result["total_executions"] = 0
           /\ "success_rate" \in DOMAIN out.result
           /\ out.result["success_rate"] = 0

\* C9: get_recent_executions(limit), for limit >= 0, returns the last
\* min(limit, length) records of the ledger in the order of their insertion:
\* none for limit = 0, the whole ledger for a limit beyond its length.
C9_RecentIsSuffix ==
    out.op = "recent" =>
        LET n == Len(execution_history)
            m == Min(out.limit, n)
        IN out.result = SubSeq(execution_history, n - m + 1, n)

\* C10: set_max_execution_time(s) leaves max_execution_time = max(1, s) and
\* set_max_memory_usage(b) leaves max_memory_usage = max(1024, b); the two are
\* at least 1 and 1024 in every state, and the next execute_safely arms its
\* alarm with the clamped value.
C10_SettersClamp ==
    /\ [](/\ max_execution_time >= 1
          /\ max_memory_usage >= 1024
          /\ (out.op = "set_time" =>
                max_execution_time = (IF out.arg < 1 THEN 1 ELSE out.arg))
          /\ (out.op = "set_memory" =>
                max_memory_usage = (IF out.arg < 1024 THEN 1024 ELSE out.arg)))
    /\ [][(ExecStep /\ out'.invoked = 1) => out'.armed = max_execution_time]_vars
    /\ [][(ExecStep /\ out'.invoked = 1 /\ out.op = "set_time")
            => out'.armed = (IF out.arg < 1 THEN 1 ELSE out.arg)]_vars

C10_Witness ==
    /\ out.op = "execute"
    /\ out.armed = 1
    /\ out.cut
    /\ max_execution_time = 1

ClearStep == nops' = nops + 1 /\ out'.op = "clear"

\* C11: clear_execution_history empties the ledger from any state and leaves
\* max_execution_time, max_memory_usage and the logging setting as they were;
\* get_recent_executions(10) right after it returns the empty sequence.
C11_ClearOnlyEmptiesLedger ==
    [][ClearStep
        => /\ execution_history' = <<>>
           /\ max_execution_time' = max_execution_time
           /\ max_memory_usage' = max_memory_usage
           /\ logger' = logger
           /\ get_recent_executions(execution_history', 10) = <<>>]_vars

\* a clear of a ledger that held the record of a call that took a second
C11_Witness ==
    /\ out.op = "clear"
    /\ execution_history = <<>>
    /\ clock > 0

Quiescent == \A t \in Threads : threads[t].pc = "idle"

\* C12: under any interleaving of execute_safely and clear_execution_history
\* calls from several callers the ledger is what serialized mutations give:
\* once no caller is inside an operation it holds, in the order they were
\* appended, the records appended since the last clear, less only the oldest
\* ones beyond HistoryLimit.
C12_LedgerAsIfSerialized ==
    Quiescent => execution_history = PySliceFrom(recorded, 0 - HistoryLimit)

\* C13: the deadline alarm is armed only while _execute_with_timeout is
\* invoking a callable: once execute_safely is left, by whatever path, no
\* alarm it armed is pending, and none comes due outside a call.
C13_AlarmOnlyDuringCall ==
    /\ alarm = 0
    /\ out.op # "alarm_fired"

====
